---- MODULE Spec2Model ----
(***************************************************************************)
(* Trapdoor delay chain of src/main.rs: sha3, hmac, setup, eval_trap,      *)
(* eval, store and prove.  Two calls of store/prove run interleaved round  *)
(* by round (variable calls); one call of eval runs iteration by iteration *)
(* (variable ev).  Byte strings are sequences over 0..ByteBase-1, big      *)
(* numbers are naturals, and the machine integer of `1 << t` is an i32.    *)
(***************************************************************************)
EXTENDS Integers, Sequences, FiniteSets, TLC

VARIABLES build, calls, ev

vars == <<build, calls, ev>>

(* ------------------------------ bounds -------------------------------- *)
\* number of values of one byte (256 in the program)
ByteBase == 4
\* bytes of one digest (32 in the program)
DigestLen == 2
\* longest data blob
MaxDataLen == 1
\* largest prime size n_bits >> 1 handed to generate_prime
MaxPrimeBits == 3
\* largest delay depth below the width of the machine integer
MaxT == 2
\* largest round count k
MaxK == 2

(* ------------------------- program constants -------------------------- *)
\* width of the integer type of `1 << t` (i32)
I32Bits == 32

(* --------------------------- byte strings ----------------------------- *)
Bytes == 0 .. (ByteBase - 1)

DigestSpace == ByteBase ^ DigestLen

\* BigNum::from_slice: the bytes read as an unsigned big-endian integer
RECURSIVE from_slice(_)
from_slice(s) ==
    IF s = <<>> THEN 0
    ELSE from_slice(SubSeq(s, 1, Len(s) - 1)) * ByteBase + s[Len(s)]

\* BigNum::to_vec: the minimal big-endian bytes (zero is the empty string)
RECURSIVE to_vec(_)
to_vec(v) ==
    IF v = 0 THEN <<>>
    ELSE Append(to_vec(v \div ByteBase), v % ByteBase)

\* the DigestLen bytes a Hasher hands back for the absorbed state h
finish(h) ==
    [i \in 1 .. DigestLen |-> (h \div (ByteBase ^ (DigestLen - i))) % ByteBase]

\* Hasher::update: absorb the bytes of s, in order, into the state h.  The
\* sponge of SHA3-256 is stood for by a small mixing step that keeps what the
\* chain relies on: the digest is a function of the bytes absorbed and of
\* their order, and absorbing a ++ b is absorbing a, then b.
RECURSIVE update(_, _)
update(h, s) ==
    IF s = <<>> THEN h
    ELSE update((h * 7 + Head(s) + 1) % DigestSpace, Tail(s))

\* sha3: one update, then finish (a fixed-length digest of the bytes)
sha3(data) == finish(update(1, data))

hmacSwapped(key, data) == finish(update(update(1, data), key))

\* hmac: the key is absorbed first, then the data
hmac(key, data) == finish(update(update(1, key), data))

(* ------------------------------ numbers ------------------------------- *)
IsPrime(m) == m > 1 /\ \A d \in 2 .. (m - 1) : m % d # 0

\* generate_prime(bits, false, None, None): an odd prime of exactly `bits` bits
generate_prime(bits) ==
    {m \in (2 ^ (bits - 1)) .. (2 ^ bits - 1) : IsPrime(m) /\ m % 2 = 1}

\* setup: two primes of n_bits >> 1 bits, drawn independently of each other
setup(n_bits) ==
    generate_prime(n_bits \div 2) \X generate_prime(n_bits \div 2)

\* BigNum::mod_exp: b^e mod m by square and multiply (b^0 is 1 mod m)
RECURSIVE mod_exp(_, _, _)
mod_exp(b, e, m) ==
    IF e = 0 THEN 1 % m
    ELSE IF e % 2 = 0
         THEN LET h == mod_exp(b, e \div 2, m) IN (h * h) % m
         ELSE (b * mod_exp(b, e - 1, m)) % m

\* `1 << t` panics in a build with overflow checks when t is the width or more
ShlOverflows(t) == t >= I32Bits

\* `1 << t` in i32: the shift amount is taken modulo the width, and a shift
\* into the sign bit gives the least i32
Shl1(t) ==
    LET s == t % I32Bits
    IN  IF s = I32Bits - 1 THEN (0 - 2147483647) - 1 ELSE 2 ^ s

\* the number of iterations of `for _ in 0..bound`
RangeLen(bound) == IF bound > 0 THEN bound ELSE 0

SquareModDouble(g, n) == (g * 2) % n

\* one loop body of eval: g = g * g % n
SquareMod(g, n) == (g * g) % n

RECURSIVE Squarings(_, _, _)
Squarings(g, n, count) ==
    IF count = 0 THEN g ELSE Squarings(SquareMod(g, n), n, count - 1)

\* eval_trap: x^e mod n in one modular exponentiation
eval_trap(x, n, e) == to_vec(mod_exp(from_slice(x), e, n))

\* eval: x squared modulo n once per iteration of 0..(1 << t)
eval(x, n, t) == to_vec(Squarings(from_slice(x), n, RangeLen(Shl1(t))))

\* the panics of eval and of store's derivation of e
EvalPanics(t) == build = "debug" /\ ShlOverflows(t)

SetBitPanics(t) == EvalPanics(t) \/ Shl1(t) < 0

\* e.set_bit(1 << t); e = e % phi: the number 2^(1 << t) reduced modulo phi
TrapdoorExp(t, phi) == mod_exp(2, Shl1(t), phi)

(* --------------------------- the two chains --------------------------- *)
Started(call) == call.pc # "start"

Terminated(call) == call.pc \in {"done", "panic"}

Kinds == {"store", "prove"}

Builds == {"debug", "release"}

\* the seeds: the zeroed buffer of main, and one filled buffer
Seeds == {[i \in 1 .. DigestLen |-> 0], [i \in 1 .. DigestLen |-> i % ByteBase]}

\* the zero-filled files of main
Datas == {[i \in 1 .. len |-> 0] : len \in 0 .. MaxDataLen}

\* setup for the smallest and for the largest modulus size
SetupPairs == UNION {setup(2 * b) : b \in {2, MaxPrimeBits}}

\* delay depths: the smallest, the largest that is iterated here, the one
\* that shifts into the sign bit and the one that shifts past the width
TValues == {0, MaxT, I32Bits - 1, I32Bits}

Args == [c0 : Seeds, d : Datas, pq : SetupPairs, t : TValues, k : 0 .. MaxK]

\* a call of store(c0, d, p, q, t, k) or of prove(c0, d, p * q, t, k) that has
\* not run yet; n is prove's argument and store's local
NewCall(kind, a) ==
    [kind |-> kind, c0 |-> a.c0, d |-> a.d, p |-> a.pq[1], q |-> a.pq[2],
     t |-> a.t, k |-> a.k, pc |-> "start",
     n |-> IF kind = "prove" THEN a.pq[1] * a.pq[2] ELSE 0,
     e |-> 0, c |-> <<>>, cs |-> <<>>, vs |-> <<>>, round |-> 0,
     result |-> <<>>]

\* the second call: the same arguments under either function with a round
\* count up to the first's, the same function on another seed, or the other
\* function on another file
Partners(kind, a) ==
    {NewCall(kd, [a EXCEPT !.k = j]) : kd \in Kinds, j \in 0 .. a.k}
    \cup {NewCall(kind, [a EXCEPT !.c0 = s]) : s \in Seeds \ {a.c0}}
    \cup {NewCall(kd, [a EXCEPT !.d = dd]) :
              kd \in Kinds \ {kind}, dd \in Datas \ {a.d}}

EvIdle == [pc |-> "idle"]

Init ==
    /\ build \in Builds
    /\ ev = EvIdle
    /\ \E kind \in Kinds, a \in Args :
         \E b \in Partners(kind, a) : calls = <<NewCall(kind, a), b>>

store_init_aliased(call) ==
    [call EXCEPT !.pc = "loop",
                 !.c = IF Started(calls[1]) THEN calls[1].c ELSE call.c0,
                 !.cs = <<>>, !.vs = <<>>, !.round = 0]

store_init_presized(call) ==
    [call EXCEPT !.pc = "loop", !.c = call.c0,
                 !.cs = [j \in 1 .. call.k |-> 0], !.vs = <<>>, !.round = 0]

\* let mut c = c.to_vec(); let mut cs = vec![]; let mut vs = vec![];
store_init(call) ==
    [call EXCEPT !.pc = "loop", !.c = call.c0, !.cs = <<>>, !.vs = <<>>,
                 !.round = 0]

prove_init(call) ==
    [call EXCEPT !.pc = "loop", !.c = call.c0, !.cs = <<>>, !.vs = <<>>,
                 !.round = 0]

in_range_exclusive(round, k) == round < k

\* `for _ in 0..=k`: the loop body runs for the counts 0 through k
in_range(round, k) == round <= k

\* store, lines 47-58: n, phi and e are derived, then the chain state is set up
StoreBegin(i) ==
    /\ calls[i].kind = "store" /\ calls[i].pc = "start"
    /\ calls' =
         [calls EXCEPT ![i] =
            IF SetBitPanics(calls[i].t)
            THEN [calls[i] EXCEPT !.pc = "panic"]
            ELSE LET phi == (calls[i].p - 1) * (calls[i].q - 1)
                 IN  store_init([calls[i] EXCEPT
                                   !.n = calls[i].p * calls[i].q,
                                   !.e = TrapdoorExp(calls[i].t, phi) % phi])]
    /\ UNCHANGED <<build, ev>>

\* prove, lines 69-71
ProveBegin(i) ==
    /\ calls[i].kind = "prove" /\ calls[i].pc = "start"
    /\ calls' = [calls EXCEPT ![i] = prove_init(calls[i])]
    /\ UNCHANGED <<build, ev>>

StoreRoundSharedAcc(i) ==
    /\ calls[i].kind = "store" /\ calls[i].pc = "loop"
    /\ in_range(calls[i].round, calls[i].k)
    /\ LET v == hmac(calls[i].c, calls[i].d)
           mine == [calls[i] EXCEPT
                      !.cs = calls[i].cs \o calls[i].c,
                      !.vs = calls[i].vs \o v,
                      !.c = sha3(eval_trap(sha3(v), calls[i].n, calls[i].e)),
                      !.round = calls[i].round + 1]
       IN  calls' = [j \in 1 .. 2 |->
                       IF j = i THEN mine
                       ELSE [calls[j] EXCEPT !.cs = mine.cs, !.vs = mine.vs]]
    /\ UNCHANGED <<build, ev>>

\* store, lines 59-64: one round of the chain with the trapdoor step
StoreRound(i) ==
    /\ calls[i].kind = "store" /\ calls[i].pc = "loop"
    /\ in_range(calls[i].round, calls[i].k)
    /\ LET v == hmac(calls[i].c, calls[i].d)
       IN  calls' =
             [calls EXCEPT ![i] =
                [calls[i] EXCEPT
                   !.cs = calls[i].cs \o calls[i].c,
                   !.vs = calls[i].vs \o v,
                   !.c = sha3(eval_trap(sha3(v), calls[i].n, calls[i].e)),
                   !.round = calls[i].round + 1]]
    /\ UNCHANGED <<build, ev>>

\* prove, lines 72-77: one round of the chain with the sequential step, which
\* panics after the two appends when `1 << t` overflows in a checked build
ProveRound(i) ==
    /\ calls[i].kind = "prove" /\ calls[i].pc = "loop"
    /\ in_range(calls[i].round, calls[i].k)
    /\ LET v == hmac(calls[i].c, calls[i].d)
           appended == [calls[i] EXCEPT !.cs = calls[i].cs \o calls[i].c,
                                        !.vs = calls[i].vs \o v]
       IN  calls' =
             [calls EXCEPT ![i] =
                IF EvalPanics(calls[i].t)
                THEN [appended EXCEPT !.pc = "panic"]
                ELSE [appended EXCEPT
                        !.c = sha3(eval(sha3(v), calls[i].n, calls[i].t)),
                        !.round = calls[i].round + 1]]
    /\ UNCHANGED <<build, ev>>

\* store, line 65: the two accumulators are digested and returned
StoreReturn(i) ==
    /\ calls[i].kind = "store" /\ calls[i].pc = "loop"
    /\ ~in_range(calls[i].round, calls[i].k)
    /\ calls' = [calls EXCEPT ![i] =
                   [calls[i] EXCEPT !.pc = "done",
                      !.result = <<sha3(calls[i].cs), sha3(calls[i].vs)>>]]
    /\ UNCHANGED <<build, ev>>

\* prove, line 78
ProveReturn(i) ==
    /\ calls[i].kind = "prove" /\ calls[i].pc = "loop"
    /\ ~in_range(calls[i].round, calls[i].k)
    /\ calls' = [calls EXCEPT ![i] =
                   [calls[i] EXCEPT !.pc = "done",
                      !.result = <<sha3(calls[i].cs), sha3(calls[i].vs)>>]]
    /\ UNCHANGED <<build, ev>>

Next ==
    \E i \in 1 .. 2 :
       \/ StoreBegin(i)
       \/ ProveBegin(i)
       \/ StoreRound(i)
       \/ ProveRound(i)
       \/ StoreReturn(i)
       \/ ProveReturn(i)

Spec == Init /\ [][Next]_vars

(* ------------------ store and prove as whole functions ----------------- *)
RECURSIVE store_loop(_, _, _, _, _, _, _, _)
store_loop(c, cs, vs, d, n, e, round, k) ==
    IF in_range(round, k)
    THEN LET v == hmac(c, d)
         IN  store_loop(sha3(eval_trap(sha3(v), n, e)), cs \o c, vs \o v,
                        d, n, e, round + 1, k)
    ELSE [panic |-> FALSE, pair |-> <<sha3(cs), sha3(vs)>>]

\* store run from call to return: the pair (C, V), or a panic
store(c0, d, p, q, t, k) ==
    IF SetBitPanics(t) THEN [panic |-> TRUE, pair |-> <<>>]
    ELSE LET n == p * q
             phi == (p - 1) * (q - 1)
             e == TrapdoorExp(t, phi) % phi
         IN  store_loop(c0, <<>>, <<>>, d, n, e, 0, k)

RECURSIVE prove_loop(_, _, _, _, _, _, _, _)
prove_loop(c, cs, vs, d, n, t, round, k) ==
    IF in_range(round, k)
    THEN IF EvalPanics(t) THEN [panic |-> TRUE, pair |-> <<>>]
         ELSE LET v == hmac(c, d)
              IN  prove_loop(sha3(eval(sha3(v), n, t)), cs \o c, vs \o v,
                             d, n, t, round + 1, k)
    ELSE [panic |-> FALSE, pair |-> <<sha3(cs), sha3(vs)>>]

\* prove run from call to return: the pair (C, V), or a panic
prove(c0, d, n, t, k) == prove_loop(c0, <<>>, <<>>, d, n, t, 0, k)

(* ------------------------- one call of eval ---------------------------- *)
\* the inputs of eval: every byte string up to a digest's length, every
\* modulus setup can lead to
XValues == UNION {[1 .. len -> Bytes] : len \in 0 .. DigestLen}

Moduli == {pq[1] * pq[2] : pq \in SetupPairs}

EvalTValues == (0 .. MaxT) \cup {I32Bits - 1, I32Bits}

InitEval ==
    /\ build \in Builds
    /\ calls = <<>>
    /\ \E x \in XValues, n \in Moduli, t \in EvalTValues :
         ev = [pc |-> "start", x |-> x, n |-> n, t |-> t, g |-> 0, i |-> 0,
               bound |-> 0, result |-> <<>>]

\* eval, lines 39-40: g is read from x and the loop bound `1 << t` is taken
EvalEnter ==
    /\ ev.pc = "start"
    /\ ev' = IF EvalPanics(ev.t)
             THEN [ev EXCEPT !.pc = "panic"]
             ELSE [ev EXCEPT !.pc = "loop", !.g = from_slice(ev.x),
                             !.bound = Shl1(ev.t), !.i = 0]
    /\ UNCHANGED <<build, calls>>

\* eval, line 41: one iteration of the loop
EvalIter ==
    /\ ev.pc = "loop" /\ ev.i < ev.bound
    /\ ev' = [ev EXCEPT !.g = SquareMod(ev.g, ev.n), !.i = ev.i + 1]
    /\ UNCHANGED <<build, calls>>

\* eval, line 43: the range is exhausted and g is returned as bytes
EvalReturn ==
    /\ ev.pc = "loop" /\ ~(ev.i < ev.bound)
    /\ ev' = [ev EXCEPT !.pc = "done", !.result = to_vec(ev.g)]
    /\ UNCHANGED <<build, calls>>

NextEval == EvalEnter \/ EvalIter \/ EvalReturn

SpecEval == InitEval /\ [][NextEval]_vars

(* ----------------------------- properties ----------------------------- *)
SameInputs(a, b) ==
    /\ a.c0 = b.c0 /\ a.d = b.d /\ a.p = b.p /\ a.q = b.q /\ a.t = b.t

\* C1: a store call and a prove call on the same seed, data, primes, delay
\* depth and round count hold the same challenge after every round and end
\* alike, with the same pair (C, V).
C1_FastSlowEquivalence ==
    \A s, r \in 1 .. 2 :
       ( /\ calls[s].kind = "store" /\ calls[r].kind = "prove"
         /\ SameInputs(calls[s], calls[r]) /\ calls[s].k = calls[r].k )
       => /\ ( Terminated(calls[s]) /\ Terminated(calls[r]) )
               => ( /\ calls[s].pc = calls[r].pc
                    /\ calls[s].result = calls[r].result )
          /\ ( /\ calls[s].pc \in {"loop", "done"}
               /\ calls[r].pc \in {"loop", "done"}
               /\ calls[s].round = calls[r].round )
               => calls[s].c = calls[r].c

\* the delay step a call applies between two rounds
DelayStep(call, x) ==
    IF call.kind = "store" THEN eval_trap(x, call.n, call.e)
    ELSE eval(x, call.n, call.t)

\* the challenges c_0 .. c_i of a call, by the recurrence
\* c_(j+1) = Digest(delayStep(Digest(v_j))) with v_j = Digest(c_j ++ D)
RECURSIVE Challenges(_, _)
Challenges(call, i) ==
    IF i = 0 THEN <<call.c0>>
    ELSE LET before == Challenges(call, i - 1)
         IN  Append(before,
                    sha3(DelayStep(call, sha3(sha3(before[i] \o call.d)))))

\* the first m byte strings of a sequence, concatenated in order
RECURSIVE Concat(_, _)
Concat(seq, m) ==
    IF m = 0 THEN <<>> ELSE Concat(seq, m - 1) \o seq[m]

\* C2: a call that returns, returns C = Digest(c_0 ++ ... ++ c_k) and
\* V = Digest(v_0 ++ ... ++ v_k) with v_i = Digest(c_i ++ D) and
\* c_(i+1) = Digest(delayStep(Digest(v_i))); while it runs, its accumulators
\* hold the challenges and responses of the rounds done, in round order.
C2_ChainOutput ==
    \A i \in 1 .. 2 :
       calls[i].pc \in {"loop", "done"}
         => LET last == IF calls[i].pc = "done" THEN calls[i].k
                        ELSE IF calls[i].round = 0 THEN 0
                        ELSE calls[i].round - 1
                cseq == Challenges(calls[i], last)
                vseq == [j \in 1 .. (last + 1)
                           |-> sha3(cseq[j] \o calls[i].d)]
            IN  /\ calls[i].round <= last + 1
                /\ calls[i].cs = Concat(cseq, calls[i].round)
                /\ calls[i].vs = Concat(vseq, calls[i].round)
                /\ calls[i].pc = "done"
                     => calls[i].result =
                          << sha3(Concat(cseq, calls[i].k + 1)),
                             sha3(Concat(vseq, calls[i].k + 1)) >>
                /\ ( calls[i].pc = "done" /\ calls[i].k = 0 )
                     => calls[i].result =
                          << sha3(calls[i].c0),
                             sha3(sha3(calls[i].c0 \o calls[i].d)) >>

C2_Witness ==
    /\ calls[1].pc = "done" /\ calls[1].k = MaxK /\ calls[1].kind = "store"
    /\ calls[2].pc = "done" /\ calls[2].k = 0 /\ calls[2].kind = "prove"
    /\ Len(calls[1].d) > 0

\* the steps a call has left at most: its begin, its rounds and its return
Measure(call) ==
    CASE call.pc = "start" -> call.k + 3
      [] call.pc = "loop" -> (call.k + 2) - call.round
      [] OTHER -> 0

\* C3: the chain loop runs the rounds 0 through k and no more: a call that
\* has returned has done exactly k + 1 rounds (one round for k = 0) and holds
\* the digests of its two accumulators, and every step of a call brings it
\* nearer to its end, so that the loop terminates.  The loop itself never
\* aborts a call: only the shift `1 << t` with t of 31 or more does.
C3_RoundCount ==
    /\ [](\A i \in 1 .. 2 :
            /\ calls[i].round <= calls[i].k + 1
            /\ calls[i].pc = "panic" => calls[i].t >= I32Bits - 1
            /\ calls[i].pc = "done"
                 => /\ calls[i].round = calls[i].k + 1
                    /\ Len(calls[i].cs) = (calls[i].k + 1) * Len(calls[i].c0)
                    /\ Len(calls[i].vs) = (calls[i].k + 1) * DigestLen
                    /\ calls[i].result = <<sha3(calls[i].cs), sha3(calls[i].vs)>>)
    /\ [][\A i \in 1 .. 2 :
            calls'[i] # calls[i]
              => /\ Measure(calls'[i]) < Measure(calls[i])
                 /\ calls'[i].round \in {calls[i].round, calls[i].round + 1}]_vars

C3_Witness ==
    /\ calls[1].pc = "done" /\ calls[1].k = MaxK /\ calls[1].round = MaxK + 1
    /\ calls[2].pc = "done" /\ calls[2].k = 0 /\ calls[2].round = 1
    /\ calls[1].kind = "prove" /\ calls[2].kind = "prove"

\* the value of a byte string read as an unsigned big-endian integer
RECURSIVE BigEndianValue(_, _)
BigEndianValue(s, i) ==
    IF i > Len(s) THEN 0
    ELSE s[i] * (ByteBase ^ (Len(s) - i)) + BigEndianValue(s, i + 1)

\* r is the minimal big-endian encoding of v: no leading zero byte
IsMinimalEncoding(r, v) ==
    /\ \A j \in DOMAIN r : r[j] \in Bytes
    /\ BigEndianValue(r, 1) = v
    /\ (r = <<>> \/ r[1] # 0)

\* b^e mod m, by the binary digits of e
RECURSIVE PowMod(_, _, _)
PowMod(b, e, m) ==
    IF e = 0 THEN 1 % m
    ELSE IF e % 2 = 0 THEN PowMod((b * b) % m, e \div 2, m)
    ELSE (b * PowMod(b, e - 1, m)) % m

\* b^(2^j) mod m
RECURSIVE PowPow2Mod(_, _, _)
PowPow2Mod(b, j, m) ==
    IF j = 0 THEN b % m
    ELSE LET h == PowPow2Mod(b, j - 1, m) IN (h * h) % m

\* C4 as stated: eval(x, n, T) returns the minimal big-endian encoding of
\* x^(2^T) mod n.
C4_EvalIsPowerOfTwoExponent ==
    ev.pc = "done"
      => IsMinimalEncoding(ev.result,
                           PowPow2Mod(BigEndianValue(ev.x, 1), ev.t, ev.n))

\* C4 as amended: eval(x, n, T) returns the minimal big-endian encoding of
\* x^(2^(2^T)) mod n, the value after 2^T squarings, for T up to 30; for
\* T = 31 it returns x itself, not reduced; from T = 32 on it panics in a
\* build with overflow checks and else returns what it returns for T mod 32.
C4_EvalResult ==
    /\ ev.pc = "panic" => ( build = "debug" /\ ev.t >= I32Bits )
    /\ ev.pc = "done"
         => /\ ( build = "release" \/ ev.t < I32Bits )
            /\ IsMinimalEncoding(
                 ev.result,
                 IF ev.t = I32Bits - 1 THEN BigEndianValue(ev.x, 1)
                 ELSE PowMod(BigEndianValue(ev.x, 1),
                             2 ^ (2 ^ (ev.t % I32Bits)), ev.n))

C4_Witness ==
    /\ ev.pc = "done" /\ ev.t = MaxT /\ ev.i = 2 ^ MaxT
    /\ Len(ev.x) = DigestLen /\ ev.x[1] = 0
    /\ ev.result # <<>> /\ ev.result # ev.x
    /\ ~C4_EvalIsPowerOfTwoExponent

RECURSIVE Gcd(_, _)
Gcd(a, b) == IF b = 0 THEN a ELSE Gcd(b, a % b)

DigestValues == [1 .. DigestLen -> Bytes]

\* C5: the exponent store derives is 2^(2^T) mod phi, and with it the fast
\* step on any x coprime to n gives, byte for byte, what eval(x, n, T) gives.
C5_TrapdoorStep ==
    \A i \in 1 .. 2 :
       ( calls[i].kind = "store" /\ calls[i].pc \in {"loop", "done"} )
       => LET phi == (calls[i].p - 1) * (calls[i].q - 1)
          IN  /\ calls[i].n = calls[i].p * calls[i].q
              /\ calls[i].e = PowPow2Mod(2, calls[i].t, phi)
              /\ \A x \in DigestValues :
                    Gcd(BigEndianValue(x, 1), calls[i].n) = 1
                      => eval_trap(x, calls[i].n, calls[i].e)
                           = eval(x, calls[i].n, calls[i].t)

\* C6: of two runs of the same function on the same seed, data and delay
\* step, the one with the larger round count holds, after each round, the
\* accumulators the other held after that round; after round j it holds
\* those the run with round count j ends with.
C6_PrefixExtension ==
    \A a, b \in 1 .. 2 :
       ( /\ a # b /\ calls[a].kind = calls[b].kind
         /\ SameInputs(calls[a], calls[b]) /\ calls[b].k <= calls[a].k
         /\ calls[a].pc \in {"loop", "done"} /\ calls[b].pc \in {"loop", "done"}
         /\ calls[a].round = calls[b].round )
       => /\ calls[a].cs = calls[b].cs
          /\ calls[a].vs = calls[b].vs

C6_Witness ==
    /\ calls[1].kind = calls[2].kind /\ SameInputs(calls[1], calls[2])
    /\ calls[2].k < calls[1].k /\ calls[2].pc = "done"
    /\ calls[1].pc = "loop" /\ calls[1].round = calls[2].k + 1
    /\ calls[2].k >= 1

Outcome(call) ==
    IF call.pc = "done" THEN [panic |-> FALSE, pair |-> call.result]
    ELSE [panic |-> TRUE, pair |-> <<>>]

Alone(call) ==
    IF call.kind = "store"
    THEN store(call.c0, call.d, call.p, call.q, call.t, call.k)
    ELSE prove(call.c0, call.d, call.p * call.q, call.t, call.k)

\* C8: in any interleaving a step changes the state of one call only, no
\* step changes the arguments of a call, nor its n and e once derived, and a
\* call ends as it ends when run alone.
C8_Independence ==
    /\ [](\A i \in 1 .. 2 :
            Terminated(calls[i]) => Outcome(calls[i]) = Alone(calls[i]))
    /\ [][/\ \E i \in 1 .. 2 : \A j \in (1 .. 2) \ {i} : calls'[j] = calls[j]
          /\ \A i \in 1 .. 2 :
                /\ calls'[i].kind = calls[i].kind
                /\ SameInputs(calls'[i], calls[i])
                /\ calls'[i].k = calls[i].k
                /\ Started(calls[i])
                     => ( calls'[i].n = calls[i].n /\ calls'[i].e = calls[i].e )]_vars

C8_Witness ==
    /\ calls[1].kind = "store" /\ calls[2].kind = "prove"
    /\ calls[1].d # calls[2].d
    /\ calls[1].k >= 1
    /\ calls[1].pc = "done" /\ calls[2].pc = "done"
    /\ calls[1].result # calls[2].result

\* C9: a call of eval that returns has run its loop body exactly 2^T times,
\* for every T.
C9_SquaringCount ==
    ev.pc = "done" => ( ev.t < I32Bits - 1 /\ ev.i = 2 ^ ev.t )

\* C10: with k = 0 a call ends by returning (Digest(c0), Digest(KeyedHash(c0,
\* D))) whatever p, q, n, e and T are, so that store and prove agree.
C10_LastStepUnobservable ==
    \A i \in 1 .. 2 :
       ( calls[i].k = 0 /\ Terminated(calls[i]) )
       => /\ calls[i].pc = "done"
          /\ calls[i].result =
               << sha3(calls[i].c0), sha3(sha3(calls[i].c0 \o calls[i].d)) >>

====
